---- MODULE Spec2Model ----
(***************************************************************************)
(* Model of streamlit_app.py: one Streamlit script that is re-run from top *)
(* to bottom after every operator interaction.  A run performs the health  *)
(* check, then renders the three tabs; a tab issues its POST only in the   *)
(* run that was triggered by a click on its button.                        *)
(*                                                                         *)
(* Every HTTP call is split into the moment the request leaves (..Send)    *)
(* and the moment requests.get / requests.post returns or raises (..Recv). *)
(* The service is the environment: its answer is chosen nondeterministic-  *)
(* ally among statuses, bodies and transport failures.                     *)
(***************************************************************************)
EXTENDS Integers, Sequences, FiniteSets, TLC

VARIABLES
    api_url,        \* value of the sidebar text field (line 20)
    geography,      \* value of the Geography selectbox (line 54)
    numbers,        \* values of the eight numeric / 0-1 inputs (lines 44-53)
    threshold,      \* value of the drift slider, in hundredths (line 166)
    uploaded_file,  \* content of the file uploader (line 101)
    df,             \* the DataFrame read from the upload in this run (line 104)
    clicked,        \* the button whose click triggered this run
    pc,             \* position of the script in the current run
    inflight,       \* HTTP requests sent and not yet answered
    sent,           \* the requests issued in the current run, in order
    response,       \* the answer to the flow's POST in this run
    health,         \* the answer to this run's health check (line 24)
    sidebar,        \* what the health check wrote to the sidebar
    display,        \* what the tabs wrote in this run, in order
    final_df,       \* the combined table of a successful batch (line 146)
    rendered        \* the buttons the last complete pass of the script drew

vars == <<api_url, geography, numbers, threshold, uploaded_file, df, clicked,
          pc, inflight, sent, response, health, sidebar, display, final_df,
          rendered>>

----------------------------------------------------------------------------
(* Bounds of the model *)

\* most rows of an uploaded table
MaxRows == 2
\* how many more predictions than MaxRows a batch response may carry
ExtraPreds == 1

----------------------------------------------------------------------------
(* Generic helpers *)

Range(s) == {s[i] : i \in 1..Len(s)}

Max(a, b) == IF a >= b THEN a ELSE b

Min(a, b) == IF a <= b THEN a ELSE b

SeqsUpTo(S, n) == UNION {[1..k -> S] : k \in 0..n}

\* Python's None where a table is expected: no upload, no DataFrame yet
None == [cols |-> <<"None">>, rows |-> <<>>]

\* an uploaded file that pd.read_csv cannot parse
BadCsv == [cols |-> <<"BadCsv">>, rows |-> <<>>]

----------------------------------------------------------------------------
(* Tables (pandas DataFrames with the default RangeIndex 0..n-1):          *)
(* cols is the ordered list of column names, rows[i] maps each column to   *)
(* the cell of row i.                                                      *)

\* lines 127-129
RequiredCols ==
    <<"CreditScore", "Age", "Tenure", "Balance", "NumOfProducts",
      "HasCrCard", "IsActiveMember", "EstimatedSalary",
      "Geography_Germany", "Geography_Spain">>

\* the order in which an uploaded CSV lists the columns it has
CsvColumnOrder ==
    <<"CreditScore", "Geography", "Age", "Tenure", "Balance", "NumOfProducts",
      "HasCrCard", "IsActiveMember", "EstimatedSalary",
      "Geography_Germany", "Geography_Spain">>

\* columns every modelled upload has, and columns it may or may not have
BaseCols == {"CreditScore", "Age", "Tenure", "Balance", "NumOfProducts",
             "HasCrCard", "IsActiveMember"}

OptionalCols == {"EstimatedSalary", "Geography", "Geography_Germany",
                 "Geography_Spain"}

\* cells of a Geography column: the three countries and a foreign spelling
GeoCells == {"France", "Germany", "Spain", "germany"}

FlagCells == {0, 1}

\* a row over the columns C: Geography cell g, flag cells a and b, and a
\* number in every other column
RowOf(C, g, a, b) ==
    [c \in C |-> CASE c = "Geography" -> g
                   [] c = "Geography_Germany" -> a
                   [] c = "Geography_Spain" -> b
                   [] OTHER -> 0]

ColSeq(C) == SelectSeq(CsvColumnOrder, LAMBDA c : c \in C)

\* the tables over the columns C of at most n rows: any Geography cell in
\* any row, and flag columns (where the upload has them) holding one value
TableOf(C, gs, a, b) ==
    [cols |-> ColSeq(C), rows |-> [i \in 1..Len(gs) |-> RowOf(C, gs[i], a, b)]]

TablesOver(C, n) ==
    {TableOf(C, gs, a, b) :
        gs \in SeqsUpTo(GeoCells, n), a \in FlagCells, b \in FlagCells}

\* what pd.read_csv can return for the modelled uploads (line 104)
Uploads ==
    UNION {TablesOver(BaseCols \cup S, MaxRows) : S \in SUBSET OptionalCols}

Columns(t) == Range(t.cols)

\* (row['Geography'] == country).astype(int)  (lines 121-122)
IsCountry(row, country) == IF row["Geography"] = country THEN 1 ELSE 0

\* df_processed[c] = (df_processed['Geography'] == country).astype(int), as
\* pandas assigns a column: in place when the column exists, appended as
\* the last column otherwise (lines 121-122)
SetFlagColumn(t, c, country) ==
    [cols |-> IF c \in Columns(t) THEN t.cols ELSE Append(t.cols, c),
     rows |-> [i \in 1..Len(t.rows) |->
                 [k \in (DOMAIN t.rows[i]) \cup {c} |->
                     IF k = c THEN IsCountry(t.rows[i], country)
                     ELSE t.rows[i][k]]]]

\* a variant that derives a flag column only where the upload has none
GeoTransformKeepsFlags(t) ==
    IF "Geography" \in Columns(t)
    THEN LET g == IF "Geography_Germany" \in Columns(t) THEN t
                  ELSE SetFlagColumn(t, "Geography_Germany", "Germany")
         IN IF "Geography_Spain" \in Columns(g) THEN g
            ELSE SetFlagColumn(g, "Geography_Spain", "Spain")
    ELSE t

\* lines 120-124, applied to the copy
GeoTransform(t) ==
    IF "Geography" \in Columns(t)
    THEN SetFlagColumn(SetFlagColumn(t, "Geography_Germany", "Germany"),
                       "Geography_Spain", "Spain")
    ELSE t

\* a variant without the copy: df_processed and df are one object
ProcessUploadInPlace(t) ==
    [original |-> GeoTransform(t), processed |-> GeoTransform(t)]

\* lines 119-124: df_processed = df.copy() and the assignments to the copy;
\* the result names both objects as they are afterwards
ProcessUpload(t) == [original |-> t, processed |-> GeoTransform(t)]

\* a variant that checks the eight raw columns only
MissingRawOnly(t) ==
    SelectSeq(RequiredCols,
              LAMBDA c : c \notin Columns(t)
                         /\ c \notin {"Geography_Germany", "Geography_Spain"})

\* line 131
Missing(t) == SelectSeq(RequiredCols, LAMBDA c : c \notin Columns(t))

\* line 137: df_processed[required_cols].to_dict(orient="records")
Records(t) ==
    [i \in 1..Len(t.rows) |-> [c \in Range(RequiredCols) |-> t.rows[i][c]]]


\* pd.DataFrame(results): the columns are the keys of the prediction dicts
ResultCols(results) ==
    IF results = <<>> THEN <<>>
    ELSE <<"churn_probability", "prediction", "risk_level">>

\* a variant that keeps only the rows both tables have (join="inner")
ConcatInner(t, results) ==
    [cols |-> t.cols \o ResultCols(results),
     rows |-> [i \in 1..Min(Len(t.rows), Len(results)) |->
                 [upload |-> <<t.rows[i]>>, pred |-> <<results[i]>>]]]

\* line 146: pd.concat([df, result_df], axis=1) aligns the two tables on the
\* union of their row indexes 0..n-1 and 0..m-1; a side that has no row i
\* is filled with NaN there (here: the empty sequence)
Concat(t, results) ==
    [cols |-> t.cols \o ResultCols(results),
     rows |-> [i \in 1..Max(Len(t.rows), Len(results)) |->
                 [upload |-> IF i <= Len(t.rows) THEN <<t.rows[i]>> ELSE <<>>,
                  pred   |-> IF i <= Len(results) THEN <<results[i]>> ELSE <<>>]]]

----------------------------------------------------------------------------
(* Widgets *)

\* line 8: the default of the URL field, and another URL the operator types
ApiUrls == {"https://churn-api", "http://localhost:8000"}

DefaultApiUrl == "https://churn-api"

\* line 54
Countries == {"France", "Germany", "Spain"}

\* lines 44-53: the widgets' defaults, and their lower and upper limits
DefaultNumbers ==
    [CreditScore |-> 650, Age |-> 35, Tenure |-> 5, Balance |-> 50000,
     EstimatedSalary |-> 75000, NumOfProducts |-> 2, HasCrCard |-> 1,
     IsActiveMember |-> 1]

LowestNumbers ==
    [CreditScore |-> 300, Age |-> 18, Tenure |-> 0, Balance |-> 0,
     EstimatedSalary |-> 0, NumOfProducts |-> 1, HasCrCard |-> 0,
     IsActiveMember |-> 0]

HighestNumbers ==
    [CreditScore |-> 850, Age |-> 100, Tenure |-> 10, Balance |-> 250000,
     EstimatedSalary |-> 200000, NumOfProducts |-> 4, HasCrCard |-> 1,
     IsActiveMember |-> 1]

NumberChoices == {DefaultNumbers, LowestNumbers, HighestNumbers}

\* line 166: st.slider(label, 0.01, 0.10, 0.05, 0.01), in hundredths
ThresholdMin == 1
ThresholdMax == 10
ThresholdDefault == 5
ThresholdStep == 1

SliderValues ==
    {v \in ThresholdMin..ThresholdMax : (v - ThresholdMin) % ThresholdStep = 0}

\* str() of the slider's float inside the f-string of line 170: Python
\* writes the shortest decimal that reads back as the same float, so the
\* last digit is dropped when it is 0 (0.1, not 0.10).  intpart and frac
\* are the digits before and after the point.
FloatStr(h) ==
    [intpart |-> h \div 100,
     frac |-> IF h % 100 = 0 THEN <<0>>
              ELSE IF h % 10 = 0 THEN <<(h % 100) \div 10>>
              ELSE <<(h % 100) \div 10, h % 10>>]

\* a variant of line 58 that tests for "not France"
geo_spain_not_france(g) == IF g # "France" THEN 1 ELSE 0

\* lines 57-58
geo_germany(g) == IF g = "Germany" THEN 1 ELSE 0

geo_spain(g) == IF g = "Spain" THEN 1 ELSE 0

\* lines 61-72
Payload(n, g) ==
    [CreditScore |-> n.CreditScore, Age |-> n.Age, Tenure |-> n.Tenure,
     Balance |-> n.Balance, NumOfProducts |-> n.NumOfProducts,
     HasCrCard |-> n.HasCrCard, IsActiveMember |-> n.IsActiveMember,
     EstimatedSalary |-> n.EstimatedSalary,
     Geography_Germany |-> geo_germany(g), Geography_Spain |-> geo_spain(g)]

----------------------------------------------------------------------------
(* Requests *)

NoQuery == [name |-> "", value |-> [intpart |-> 0, frac |-> <<>>]]

NoJson == [kind |-> "none", items |-> <<>>]

\* line 24
HealthRequest(url) ==
    [method |-> "GET", url |-> url, path |-> "/health",
     query |-> NoQuery, json |-> NoJson]

\* line 75
PredictRequest(url, n, g) ==
    [method |-> "POST", url |-> url, path |-> "/predict",
     query |-> NoQuery, json |-> [kind |-> "object", items |-> <<Payload(n, g)>>]]

\* line 139
BatchRequest(url, records) ==
    [method |-> "POST", url |-> url, path |-> "/predict/batch",
     query |-> NoQuery, json |-> [kind |-> "array", items |-> records]]

\* a variant that sends the threshold in a JSON body
DriftRequestWithBody(url, h) ==
    [method |-> "POST", url |-> url, path |-> "/drift/check",
     query |-> NoQuery,
     json |-> [kind |-> "object", items |-> <<[threshold |-> FloatStr(h)]>>]]

\* line 170
DriftRequest(url, h) ==
    [method |-> "POST", url |-> url, path |-> "/drift/check",
     query |-> [name |-> "threshold", value |-> FloatStr(h)], json |-> NoJson]

----------------------------------------------------------------------------
(* Answers of the service, and what each flow shows for them *)

NoResponse == [exc |-> "", status |-> 0, body |-> "", predictions |-> <<>>]

\* requests.get / requests.post raised instead of returning
Raised(e) == [exc |-> e, status |-> 0, body |-> "", predictions |-> <<>>]

Answer(status, body, preds) ==
    [exc |-> "", status |-> status, body |-> body, predictions |-> preds]

\* the status the script compares with (lines 25, 76, 141, 171)
StatusOk == 200

\* another success status, and a failure status
OtherStatuses == {201, 500}

TransportErrors == {"ConnectionError"}

\* bodies: well-formed answers of each endpoint, a JSON object without the
\* expected fields, and text that is no JSON
PredictBodies == {"churn-json", "stay-json"}

DriftBodies == {"drift-json", "nodrift-json"}

BatchBody == "predictions-json"

EmptyJson == "{}"

ErrorText == "Internal Server Error"

IsJson(body) == body # ErrorText

\* response.json() of a well-formed /predict answer; churn_probability in percent
PredictFields(body) ==
    IF body = "churn-json"
    THEN [churn_probability |-> 90, prediction |-> 1, risk_level |-> "High"]
    ELSE [churn_probability |-> 10, prediction |-> 0, risk_level |-> "Low"]

\* response.json() of a well-formed /drift/check answer
DriftFields(body) ==
    IF body = "drift-json"
    THEN [features_analyzed |-> 8, features_drifted |-> 2]
    ELSE [features_analyzed |-> 8, features_drifted |-> 0]

\* the i-th prediction of a batch answer: the answers alternate, and the
\* probability tells the rows of one answer apart
PredAt(i) ==
    [churn_probability |-> i, prediction |-> i % 2,
     risk_level |-> IF i % 2 = 1 THEN "High" ELSE "Low"]

\* the "predictions" lists the service may return, of every length up to n
PredLists(n) == {[i \in 1..m |-> PredAt(i)] : m \in 0..n}

\* the body a status other than 200 comes with
BodyOf(status, good) == IF status < 300 THEN good ELSE ErrorText

HealthResponses ==
    {Raised(e) : e \in TransportErrors}
    \cup {Answer(st, "", <<>>) : st \in {StatusOk} \cup OtherStatuses}

PredictResponses ==
    {Raised(e) : e \in TransportErrors}
    \cup {Answer(StatusOk, b, <<>>) : b \in PredictBodies \cup {EmptyJson, ErrorText}}
    \cup {Answer(st, BodyOf(st, "churn-json"), <<>>) : st \in OtherStatuses}

DriftResponses ==
    {Raised(e) : e \in TransportErrors}
    \cup {Answer(StatusOk, b, <<>>) : b \in DriftBodies \cup {EmptyJson, ErrorText}}
    \cup {Answer(st, BodyOf(st, "drift-json"), <<>>) : st \in OtherStatuses}

BatchResponses ==
    {Raised(e) : e \in TransportErrors}
    \cup {Answer(StatusOk, BatchBody, ps) : ps \in PredLists(MaxRows + ExtraPreds)}
    \cup {Answer(StatusOk, b, <<>>) : b \in {EmptyJson, ErrorText}}
    \cup {Answer(st, BodyOf(st, BatchBody), <<>>) : st \in OtherStatuses}

\* one st.* call in the sidebar
SidebarItem(kind, text, code) == [kind |-> kind, text |-> text, code |-> code]

\* one st.* call in a tab: arg is the text put into the message, num a number
Item(kind, text, arg, num) ==
    [kind |-> kind, text |-> text, arg |-> arg, num |-> num, cols |-> <<>>]

\* a variant with two states: any status but 200 counts as unreachable
HealthReportTwoStates(r) ==
    IF r.exc = "" /\ r.status = StatusOk
    THEN <<SidebarItem("success", "API Connected", 0)>>
    ELSE <<SidebarItem("error", "API Unreachable", 0)>>

\* lines 23-30
HealthReport(r) ==
    IF r.exc # "" THEN <<SidebarItem("error", "API Unreachable", 0)>>
    ELSE IF r.status = StatusOk THEN <<SidebarItem("success", "API Connected", 0)>>
    ELSE <<SidebarItem("error", "API Error", r.status)>>

\* lines 74-93
PredictOutcome(r) ==
    IF r.exc # "" THEN <<Item("error", "Request failed", r.exc, 0)>>
    ELSE IF r.status = StatusOk
    THEN IF ~IsJson(r.body)
         THEN <<Item("error", "Request failed", "JSONDecodeError", 0)>>
         ELSE IF r.body \notin PredictBodies
         THEN <<Item("subheader", "Prediction Result", "", 0),
                Item("error", "Request failed", "KeyError", 0)>>
         ELSE LET result == PredictFields(r.body) IN
              <<Item("subheader", "Prediction Result", "", 0),
                Item("metric", "Churn Probability", "%", result.churn_probability),
                Item("metric", "Prediction",
                     IF result.prediction = 1 THEN "Churn" ELSE "Stay", 0),
                Item("metric", "Risk Level", result.risk_level, 0),
                IF result.prediction = 1
                THEN Item("error", "This customer is likely to churn.", "", 0)
                ELSE Item("success", "This customer is likely to stay.", "", 0)>>
    ELSE <<Item("error", "Error", r.body, 0)>>

\* a variant that lets response.raise_for_status() speak: a status other
\* than 200 is reported like an exception
BatchOutcomeRaising(r) ==
    IF r.exc # "" THEN <<Item("error", "Batch processing failed", r.exc, 0)>>
    ELSE IF r.status # StatusOk
    THEN <<Item("error", "Batch processing failed", "HTTPError", 0)>>
    ELSE IF r.body # BatchBody
    THEN <<Item("error", "Batch processing failed", "KeyError", 0)>>
    ELSE <<Item("success", "Processed records", "", Len(r.predictions)),
           Item("dataframe", "final_df", "", 0),
           Item("download", "predictions.csv", "", 0)>>

\* lines 141-157, the display
BatchOutcome(r) ==
    IF r.exc # "" THEN <<Item("error", "Batch processing failed", r.exc, 0)>>
    ELSE IF r.status = StatusOk
    THEN IF ~IsJson(r.body)
         THEN <<Item("error", "Batch processing failed", "JSONDecodeError", 0)>>
         ELSE IF r.body # BatchBody
         THEN <<Item("error", "Batch processing failed", "KeyError", 0)>>
         ELSE <<Item("success", "Processed records", "", Len(r.predictions)),
                Item("dataframe", "final_df", "", 0),
                Item("download", "predictions.csv", "", 0)>>
    ELSE <<Item("error", "Error", r.body, 0)>>

\* lines 141-146, the combined table
BatchResult(t, r) ==
    IF r.exc = "" /\ r.status = StatusOk /\ r.body = BatchBody
    THEN Concat(t, r.predictions)
    ELSE None

\* lines 169-185
DriftOutcome(r) ==
    IF r.exc # "" THEN <<Item("error", "Drift check failed", r.exc, 0)>>
    ELSE IF r.status = StatusOk
    THEN IF ~IsJson(r.body)
         THEN <<Item("error", "Drift check failed", "JSONDecodeError", 0)>>
         ELSE IF r.body \notin DriftBodies
         THEN <<Item("error", "Drift check failed", "KeyError", 0)>>
         ELSE LET data == DriftFields(r.body) IN
              <<Item("metric", "Features Analyzed", "", data.features_analyzed),
                Item("metric", "Features with Drift", "", data.features_drifted),
                IF data.features_drifted > 0
                THEN Item("warning", "Data Drift Detected!", "", 0)
                ELSE Item("success", "No Data Drift Detected.", "", 0)>>
    ELSE <<Item("error", "Error", r.body, 0)>>

\* lines 133-135
MissingReport(missing) ==
    <<[kind |-> "error", text |-> "Missing columns in CSV", arg |-> "",
       num |-> 0, cols |-> missing],
      Item("info", "Ensure you have 'Geography' to convert", "", 0)>>

----------------------------------------------------------------------------
(* The state after the first load of the page starts: the widgets hold     *)
(* their defaults and the script is at its first request (line 24).        *)

Init ==
    /\ api_url = DefaultApiUrl
    /\ geography = "France"
    /\ numbers = DefaultNumbers
    /\ threshold = ThresholdDefault
    /\ uploaded_file = None
    /\ df = None
    /\ clicked = "none"
    /\ pc = "health"
    /\ inflight = {}
    /\ sent = <<>>
    /\ response = NoResponse
    /\ health = NoResponse
    /\ sidebar = <<>>
    /\ display = <<>>
    /\ final_df = None
    /\ rendered = {}

\* Streamlit re-runs the script from line 1 after an interaction; only the
\* widget values survive, and st.button is True for the clicked button only
StartRun(button) ==
    /\ pc = "idle"
    /\ pc' = "health"
    /\ clicked' = button
    /\ df' = None
    /\ inflight' = {}
    /\ sent' = <<>>
    /\ response' = NoResponse
    /\ health' = NoResponse
    /\ sidebar' = <<>>
    /\ display' = <<>>
    /\ final_df' = None
    /\ rendered' = {}

----------------------------------------------------------------------------
(* The operator *)

\* line 20
EditUrl(u) ==
    /\ u # api_url
    /\ StartRun("none")
    /\ api_url' = u
    /\ UNCHANGED <<geography, numbers, threshold, uploaded_file>>

\* line 54
SelectGeography(g) ==
    /\ g # geography
    /\ StartRun("none")
    /\ geography' = g
    /\ UNCHANGED <<api_url, numbers, threshold, uploaded_file>>

\* lines 44-53
EditNumbers(n) ==
    /\ n # numbers
    /\ StartRun("none")
    /\ numbers' = n
    /\ UNCHANGED <<api_url, geography, threshold, uploaded_file>>

\* line 166: the slider exists once the script has reached tab3
SetThreshold(h) ==
    /\ "Check Drift" \in rendered
    /\ h # threshold
    /\ StartRun("none")
    /\ threshold' = h
    /\ UNCHANGED <<api_url, geography, numbers, uploaded_file>>

\* line 101: choose a file
UploadFile(f) ==
    /\ uploaded_file = None
    /\ StartRun("none")
    /\ uploaded_file' = f
    /\ UNCHANGED <<api_url, geography, numbers, threshold>>

\* line 101: remove the file
RemoveFile ==
    /\ uploaded_file # None
    /\ StartRun("none")
    /\ uploaded_file' = None
    /\ UNCHANGED <<api_url, geography, numbers, threshold>>

\* line 60
ClickPredict ==
    /\ "Predict" \in rendered
    /\ StartRun("Predict")
    /\ UNCHANGED <<api_url, geography, numbers, threshold, uploaded_file>>

\* line 107
ClickPredictBatch ==
    /\ "Predict Batch" \in rendered
    /\ StartRun("Predict Batch")
    /\ UNCHANGED <<api_url, geography, numbers, threshold, uploaded_file>>

\* line 168
ClickCheckDrift ==
    /\ "Check Drift" \in rendered
    /\ StartRun("Check Drift")
    /\ UNCHANGED <<api_url, geography, numbers, threshold, uploaded_file>>

----------------------------------------------------------------------------
(* The script *)

widgets == <<api_url, geography, numbers, threshold, uploaded_file>>

\* a request leaves: it is in flight and on this run's list
Send(req) ==
    /\ inflight' = inflight \cup {req}
    /\ sent' = Append(sent, req)

\* line 24, the call
HealthSend ==
    /\ pc = "health"
    /\ Send(HealthRequest(api_url))
    /\ pc' = "health_wait"
    /\ UNCHANGED <<widgets, df, clicked, response, health, sidebar, display, final_df, rendered>>

\* lines 23-30, from the return of the call
HealthRecv ==
    /\ pc = "health_wait"
    /\ \E r \in HealthResponses :
          /\ health' = r
          /\ sidebar' = HealthReport(r)
    /\ inflight' = {}
    /\ pc' = "tab1"
    /\ UNCHANGED <<widgets, df, clicked, sent, response, display, final_df, rendered>>

\* lines 38-60 when st.button("Predict") is False
PredictIdle ==
    /\ pc = "tab1"
    /\ clicked # "Predict"
    /\ rendered' = rendered \cup {"Predict"}
    /\ pc' = "tab2"
    /\ UNCHANGED <<widgets, df, clicked, inflight, sent, response, health, sidebar, display, final_df>>

\* a variant that posts only when the health check reported a connection
PredictSendIfConnected ==
    /\ pc = "tab1"
    /\ clicked = "Predict"
    /\ rendered' = rendered \cup {"Predict"}
    /\ IF sidebar = <<SidebarItem("success", "API Connected", 0)>>
       THEN /\ Send(PredictRequest(api_url, numbers, geography))
            /\ pc' = "tab1_wait"
       ELSE /\ UNCHANGED <<inflight, sent>>
            /\ pc' = "tab2"
    /\ UNCHANGED <<widgets, df, clicked, response, health, sidebar, display, final_df>>

\* lines 60-75, up to the call
PredictSend ==
    /\ pc = "tab1"
    /\ clicked = "Predict"
    /\ Send(PredictRequest(api_url, numbers, geography))
    /\ rendered' = rendered \cup {"Predict"}
    /\ pc' = "tab1_wait"
    /\ UNCHANGED <<widgets, df, clicked, response, health, sidebar, display, final_df>>

\* lines 75-93, from the return of the call
PredictRecv ==
    /\ pc = "tab1_wait"
    /\ \E r \in PredictResponses :
          /\ response' = r
          /\ display' = display \o PredictOutcome(r)
    /\ inflight' = {}
    /\ pc' = "tab2"
    /\ UNCHANGED <<widgets, df, clicked, sent, health, sidebar, final_df, rendered>>

\* lines 98-103 when no file is uploaded
BatchNoFile ==
    /\ pc = "tab2"
    /\ uploaded_file = None
    /\ pc' = "tab3"
    /\ UNCHANGED <<widgets, df, clicked, inflight, sent, response, health, sidebar, display, final_df, rendered>>

\* line 104 raises outside any try: Streamlit shows the exception and the
\* run ends there
BatchUnreadable ==
    /\ pc = "tab2"
    /\ uploaded_file = BadCsv
    /\ display' = Append(display, Item("exception", "ParserError", "", 0))
    /\ pc' = "idle"
    /\ UNCHANGED <<widgets, df, clicked, inflight, sent, response, health, sidebar, final_df, rendered>>

\* lines 104-107 when st.button("Predict Batch") is False
BatchIdle ==
    /\ pc = "tab2"
    /\ uploaded_file \notin {None, BadCsv}
    /\ clicked # "Predict Batch"
    /\ df' = uploaded_file
    /\ display' = Append(display, Item("dataframe", "df.head()", "", 0))
    /\ rendered' = rendered \cup {"Predict Batch"}
    /\ pc' = "tab3"
    /\ UNCHANGED <<widgets, clicked, inflight, sent, response, health, sidebar, final_df>>

\* lines 104-135: the processed table lacks a required column
BatchReject ==
    /\ pc = "tab2"
    /\ uploaded_file \notin {None, BadCsv}
    /\ clicked = "Predict Batch"
    /\ LET both == ProcessUpload(uploaded_file)
           missing == Missing(both.processed)
       IN /\ missing # <<>>
          /\ df' = both.original
          /\ display' = display \o <<Item("dataframe", "df.head()", "", 0)>>
                                \o MissingReport(missing)
    /\ rendered' = rendered \cup {"Predict Batch"}
    /\ pc' = "tab3"
    /\ UNCHANGED <<widgets, clicked, inflight, sent, response, health, sidebar, final_df>>

\* lines 104-139, up to the call; selecting a column the table lacks
\* (line 137) raises KeyError, which line 156 catches
BatchSend ==
    /\ pc = "tab2"
    /\ uploaded_file \notin {None, BadCsv}
    /\ clicked = "Predict Batch"
    /\ LET both == ProcessUpload(uploaded_file)
           missing == Missing(both.processed)
       IN /\ missing = <<>>
          /\ df' = both.original
          /\ IF Range(RequiredCols) \subseteq Columns(both.processed)
             THEN /\ Send(BatchRequest(api_url, Records(both.processed)))
                  /\ display' = Append(display, Item("dataframe", "df.head()", "", 0))
                  /\ pc' = "tab2_wait"
             ELSE /\ UNCHANGED <<inflight, sent>>
                  /\ display' = display \o
                        <<Item("dataframe", "df.head()", "", 0),
                          Item("error", "Batch processing failed", "KeyError", 0)>>
                  /\ pc' = "tab3"
    /\ rendered' = rendered \cup {"Predict Batch"}
    /\ UNCHANGED <<widgets, clicked, response, health, sidebar, final_df>>

\* lines 139-157, from the return of the call
BatchRecv ==
    /\ pc = "tab2_wait"
    /\ \E r \in BatchResponses :
          /\ response' = r
          /\ final_df' = BatchResult(df, r)
          /\ display' = display \o BatchOutcome(r)
    /\ inflight' = {}
    /\ pc' = "tab3"
    /\ UNCHANGED <<widgets, df, clicked, sent, health, sidebar, rendered>>

\* lines 162-168 when st.button("Check Drift") is False
DriftIdle ==
    /\ pc = "tab3"
    /\ clicked # "Check Drift"
    /\ rendered' = rendered \cup {"Check Drift"}
    /\ pc' = "idle"
    /\ UNCHANGED <<widgets, df, clicked, inflight, sent, response, health, sidebar, display, final_df>>

\* lines 166-170, up to the call
DriftSend ==
    /\ pc = "tab3"
    /\ clicked = "Check Drift"
    /\ Send(DriftRequest(api_url, threshold))
    /\ rendered' = rendered \cup {"Check Drift"}
    /\ pc' = "tab3_wait"
    /\ UNCHANGED <<widgets, df, clicked, response, health, sidebar, display, final_df>>

\* a variant that posts once more after a failed attempt
DriftRecvRetrying ==
    /\ pc = "tab3_wait"
    /\ \E r \in DriftResponses :
          /\ response' = r
          /\ IF (r.exc # "" \/ r.status # StatusOk) /\ Len(sent) < 3
             THEN /\ inflight' = {DriftRequest(api_url, threshold)}
                  /\ sent' = Append(sent, DriftRequest(api_url, threshold))
                  /\ UNCHANGED display
                  /\ pc' = "tab3_wait"
             ELSE /\ inflight' = {}
                  /\ UNCHANGED sent
                  /\ display' = display \o DriftOutcome(r)
                  /\ pc' = "idle"
    /\ UNCHANGED <<widgets, df, clicked, health, sidebar, final_df, rendered>>

\* lines 170-185, from the return of the call
DriftRecv ==
    /\ pc = "tab3_wait"
    /\ \E r \in DriftResponses :
          /\ response' = r
          /\ display' = display \o DriftOutcome(r)
    /\ inflight' = {}
    /\ pc' = "idle"
    /\ UNCHANGED <<widgets, df, clicked, sent, health, sidebar, final_df, rendered>>

----------------------------------------------------------------------------
(* Specifications *)

\* the uploads tried together with the other two flows: one table for each
\* way of having or lacking the required columns, and an unreadable file
SampleColumnSets ==
    {OptionalCols,
     {"EstimatedSalary", "Geography"},
     {"EstimatedSalary", "Geography_Germany", "Geography_Spain"},
     {"Geography"},
     {"EstimatedSalary", "Geography_Germany"}}

SampleUploads ==
    {TableOf(BaseCols \cup S, <<"Germany">>, 0, 1) : S \in SampleColumnSets}
    \cup {BadCsv}

Script ==
    \/ HealthSend
    \/ HealthRecv
    \/ PredictIdle
    \/ PredictSend
    \/ PredictRecv
    \/ BatchNoFile
    \/ BatchUnreadable
    \/ BatchIdle
    \/ BatchReject
    \/ BatchSend
    \/ BatchRecv
    \/ DriftIdle
    \/ DriftSend
    \/ DriftRecv

Next ==
    \/ \E u \in ApiUrls : EditUrl(u)
    \/ \E g \in Countries : SelectGeography(g)
    \/ \E n \in NumberChoices : EditNumbers(n)
    \/ \E h \in SliderValues : SetThreshold(h)
    \/ \E f \in SampleUploads : UploadFile(f)
    \/ RemoveFile
    \/ ClickPredict
    \/ ClickPredictBatch
    \/ ClickCheckDrift
    \/ Script

Spec == Init /\ [][Next]_vars

\* the batch flow alone, over every modelled upload: the operator only
\* handles the file and the Predict Batch button, so tab1 and tab3 never post
NextBatch ==
    \/ \E f \in Uploads \cup {BadCsv} : UploadFile(f)
    \/ RemoveFile
    \/ ClickPredictBatch
    \/ HealthSend
    \/ HealthRecv
    \/ PredictIdle
    \/ BatchNoFile
    \/ BatchUnreadable
    \/ BatchIdle
    \/ BatchReject
    \/ BatchSend
    \/ BatchRecv
    \/ DriftIdle

SpecBatch == Init /\ [][NextBatch]_vars

\* the steps the script takes by itself: everything but the return of an
\* HTTP call, which no timeout bounds
ScriptSteps ==
    \/ HealthSend
    \/ PredictIdle
    \/ PredictSend
    \/ BatchNoFile
    \/ BatchUnreadable
    \/ BatchIdle
    \/ BatchReject
    \/ BatchSend
    \/ DriftIdle
    \/ DriftSend

\* a started run goes on until it waits for the service
FairSpec == Spec /\ WF_vars(ScriptSteps)

----------------------------------------------------------------------------
(* Vocabulary of the properties *)

PostedTo(path) == \E i \in 1..Len(sent) : sent[i].path = path

Posts == SelectSeq(sent, LAMBDA r : r.method = "POST")

\* the run was started by a click on Predict Batch and tab2 has handled it
BatchHandled ==
    /\ clicked = "Predict Batch"
    /\ pc \in {"tab2_wait", "tab3", "idle"}

\* ... and the service answered it with status 200 and a predictions list
BatchSucceeded ==
    /\ clicked = "Predict Batch"
    /\ pc \in {"tab3", "idle"}
    /\ response.exc = ""
    /\ response.status = StatusOk
    /\ response.body = BatchBody

\* the required columns the table t lacks
Absent(t) == Range(RequiredCols) \ Columns(t)

\* the missing-column lists shown in this run
MissingShown ==
    {display[i].cols : i \in {j \in 1..Len(display) :
                                display[j].text = "Missing columns in CSV"}}

----------------------------------------------------------------------------
(* C1: on Predict Batch the POST to /predict/batch is withheld exactly     *)
(* when the processed table (the upload after the Geography step) lacks a  *)
(* required column, and then exactly one list of missing columns is shown, *)
(* naming each absent required column once and nothing else.               *)
C1_RejectIffMissing ==
    BatchHandled =>
        LET absent == Absent(GeoTransform(uploaded_file)) IN
        /\ (~PostedTo("/predict/batch")) <=> (absent # {})
        /\ absent # {} =>
              /\ Cardinality(MissingShown) = 1
              /\ \A m \in MissingShown :
                    /\ Range(m) = absent
                    /\ Len(m) = Cardinality(absent)
        /\ absent = {} => MissingShown = {}

\* an upload with a Geography column and no EstimatedSalary was rejected
\* with the list ["EstimatedSalary"], and no request but the health check left
C1_Witness ==
    /\ BatchHandled
    /\ pc = "idle"
    /\ "Geography" \in Columns(uploaded_file)
    /\ Len(uploaded_file.rows) = MaxRows
    /\ MissingShown = {<<"EstimatedSalary">>}
    /\ Len(sent) = 1

----------------------------------------------------------------------------
(* C2 as stated: after a successful batch the combined table has as many   *)
(* rows as the upload, with input row i and response row i side by side,   *)
(* whatever the length of the returned list.                               *)
C2_RowCountAsUpload ==
    BatchSucceeded =>
        /\ Len(final_df.rows) = Len(uploaded_file.rows)
        /\ \A i \in 1..Len(final_df.rows) :
              final_df.rows[i].upload = <<uploaded_file.rows[i]>>
        /\ \A i \in 1..Len(response.predictions) :
              /\ i <= Len(final_df.rows)
              /\ final_df.rows[i].pred = <<response.predictions[i]>>

(* C2 amended: the combined table has max(rows of the upload, predictions  *)
(* returned) rows, so as many as the upload exactly when the list is not   *)
(* longer than the upload; row i holds input row i (blank beyond the       *)
(* upload) beside response row i (blank beyond the list), in order.        *)
C2_RowsAligned ==
    BatchSucceeded =>
        LET n == Len(uploaded_file.rows)
            m == Len(response.predictions)
        IN /\ Len(final_df.rows) = Max(n, m)
           /\ (Len(final_df.rows) = n) <=> (m <= n)
           /\ \A i \in 1..Len(final_df.rows) :
                 /\ final_df.rows[i].upload =
                       IF i <= n THEN <<uploaded_file.rows[i]>> ELSE <<>>
                 /\ final_df.rows[i].pred =
                       IF i <= m THEN <<response.predictions[i]>> ELSE <<>>

\* a batch of two different rows was answered with more predictions than rows
C2_Witness ==
    /\ BatchSucceeded
    /\ Len(uploaded_file.rows) = MaxRows
    /\ "Geography" \in Columns(uploaded_file)
    /\ uploaded_file.rows[1] # uploaded_file.rows[2]
    /\ Len(response.predictions) > Len(uploaded_file.rows)
    /\ Len(final_df.rows) = Len(response.predictions)

----------------------------------------------------------------------------
(* C8: when the upload has a Geography column, record i of the submitted   *)
(* batch has Geography_Germany = 1 exactly when row i's Geography cell is  *)
(* "Germany" and Geography_Spain = 1 exactly when it is "Spain", so the    *)
(* two flags never add up to more than 1, whatever flag columns the upload *)
(* brought along.                                                          *)
C8_FlagsFromGeography ==
    \A k \in 1..Len(sent) :
        (sent[k].path = "/predict/batch" /\ "Geography" \in Columns(uploaded_file)) =>
            LET recs == sent[k].json.items IN
            /\ Len(recs) = Len(uploaded_file.rows)
            /\ \A i \in 1..Len(recs) :
                  LET cell == uploaded_file.rows[i]["Geography"] IN
                  /\ recs[i]["Geography_Germany"] \in {0, 1}
                  /\ recs[i]["Geography_Spain"] \in {0, 1}
                  /\ (recs[i]["Geography_Germany"] = 1) <=> (cell = "Germany")
                  /\ (recs[i]["Geography_Spain"] = 1) <=> (cell = "Spain")
                  /\ recs[i]["Geography_Germany"] + recs[i]["Geography_Spain"] <= 1

\* a submitted batch whose upload carried both flag columns set to 1 and a
\* France row, a Germany row and a differently spelled row
C8_Witness ==
    /\ PostedTo("/predict/batch")
    /\ {"Geography", "Geography_Germany", "Geography_Spain"} \subseteq Columns(uploaded_file)
    /\ Len(uploaded_file.rows) = MaxRows
    /\ uploaded_file.rows[1]["Geography"] = "France"
    /\ uploaded_file.rows[1]["Geography_Germany"] = 1
    /\ uploaded_file.rows[1]["Geography_Spain"] = 1
    /\ uploaded_file.rows[2]["Geography"] \in {"Germany", "germany"}

----------------------------------------------------------------------------
(* C10: the script never changes the uploaded table: whenever the run has  *)
(* read it, df has the columns and cells of the upload, through rejection, *)
(* failure and success alike; and the combined table of a success lists    *)
(* the upload's columns followed by the response's columns, so a flag      *)
(* column is in it only if the upload had it.                              *)
C10_UploadUntouched ==
    /\ df # None => df = uploaded_file
    /\ BatchSucceeded =>
          /\ df = uploaded_file
          /\ final_df.cols = uploaded_file.cols \o ResultCols(response.predictions)
          /\ \A c \in {"Geography_Germany", "Geography_Spain"} :
                c \in Range(final_df.cols) => c \in Columns(uploaded_file)
          /\ \A i \in 1..Len(uploaded_file.rows) :
                final_df.rows[i].upload = <<uploaded_file.rows[i]>>

\* a successful batch for an upload that has Geography and neither flag
\* column: the flags were derived and sent, and are not in the result
C10_Witness ==
    /\ BatchSucceeded
    /\ pc = "idle"
    /\ "Geography" \in Columns(uploaded_file)
    /\ Columns(uploaded_file) \cap {"Geography_Germany", "Geography_Spain"} = {}
    /\ Len(uploaded_file.rows) = MaxRows
    /\ Len(response.predictions) = Len(uploaded_file.rows)
    /\ "Geography_Germany" \notin Range(final_df.cols)
    /\ "risk_level" \in Range(final_df.cols)

----------------------------------------------------------------------------
(* Vocabulary of the three flows *)

\* the flow of the clicked button has got its answer and reported it
PredictAnswered == clicked = "Predict" /\ pc \in {"tab2", "tab3", "idle"}

BatchAnswered ==
    clicked = "Predict Batch" /\ pc \in {"tab3", "idle"} /\ PostedTo("/predict/batch")

DriftAnswered == clicked = "Check Drift" /\ pc = "idle"

FlowAnswered == PredictAnswered \/ BatchAnswered \/ DriftAnswered

\* the words each flow puts before an exception's message
FailPrefix ==
    CASE clicked = "Predict" -> "Request failed"
      [] clicked = "Predict Batch" -> "Batch processing failed"
      [] clicked = "Check Drift" -> "Drift check failed"
      [] OTHER -> ""

\* the answer is the one the flow's endpoint is expected to give
WellFormed ==
    CASE clicked = "Predict" -> response.body \in PredictBodies
      [] clicked = "Predict Batch" -> response.body = BatchBody
      [] clicked = "Check Drift" -> response.body \in DriftBodies
      [] OTHER -> FALSE

IsSuccess(status) == status >= 200 /\ status < 300

Shows(kind, text) ==
    \E i \in 1..Len(display) : display[i].kind = kind /\ display[i].text = text

\* "Error: <response.text>"
BodyErrors == {display[i].arg : i \in {j \in 1..Len(display) :
                   display[j].kind = "error" /\ display[j].text = "Error"}}

\* "<prefix>: <str(e)>"
ExceptionErrors == {display[i].arg : i \in {j \in 1..Len(display) :
                   display[j].kind = "error" /\ display[j].text = FailPrefix}}

ResultRendered ==
    CASE clicked = "Predict" ->
            /\ Shows("metric", "Churn Probability")
            /\ Shows("metric", "Risk Level")
            /\ \/ Shows("error", "This customer is likely to churn.")
               \/ Shows("success", "This customer is likely to stay.")
      [] clicked = "Predict Batch" ->
            /\ Shows("success", "Processed records")
            /\ Shows("dataframe", "final_df")
            /\ Shows("download", "predictions.csv")
      [] clicked = "Check Drift" ->
            /\ Shows("metric", "Features with Drift")
            /\ \/ Shows("warning", "Data Drift Detected!")
               \/ Shows("success", "No Data Drift Detected.")
      [] OTHER -> FALSE

\* some part of the result is on the page
ResultStarted ==
    \/ Shows("metric", "Churn Probability")
    \/ Shows("success", "Processed records")
    \/ Shows("metric", "Features Analyzed")

----------------------------------------------------------------------------
(* C3 as stated: in each flow a non-success status shows the raw body as   *)
(* an error, a transport failure shows the exception's message, and every  *)
(* success status renders the result: a success status is never shown as   *)
(* an error and a 200 answer never ends in the failure message.            *)
C3_ThreeOutcomesBySuccess ==
    FlowAnswered =>
        /\ (response.exc = "" /\ ~IsSuccess(response.status)) =>
              (BodyErrors = {response.body} /\ ExceptionErrors = {})
        /\ response.exc # "" =>
              (ExceptionErrors = {response.exc} /\ BodyErrors = {})
        /\ (response.exc = "" /\ IsSuccess(response.status)) =>
              (ResultRendered /\ BodyErrors = {} /\ ExceptionErrors = {})

(* C3 amended: in each flow an answer whose status is not 200 (another     *)
(* success status included) shows the raw body as an error; an exception   *)
(* raised anywhere in the flow's try block, by the transport or while      *)
(* decoding or reading a 200 answer, shows the exception's message after   *)
(* the flow's failure prefix; a 200 answer with the expected body renders  *)
(* the result.  Exactly one of the three happens.                          *)
C3_ThreeOutcomesBy200 ==
    FlowAnswered =>
        /\ (response.exc = "" /\ response.status # StatusOk) =>
              (BodyErrors = {response.body} /\ ExceptionErrors = {} /\ ~ResultStarted)
        /\ response.exc # "" =>
              (ExceptionErrors = {response.exc} /\ BodyErrors = {} /\ ~ResultStarted)
        /\ (response.exc = "" /\ response.status = StatusOk /\ WellFormed) =>
              (ResultRendered /\ BodyErrors = {} /\ ExceptionErrors = {})
        /\ (response.exc = "" /\ response.status = StatusOk /\ ~WellFormed) =>
              /\ ExceptionErrors =
                    {IF IsJson(response.body) THEN "KeyError" ELSE "JSONDecodeError"}
              /\ BodyErrors = {}
              /\ ~ResultRendered

\* a batch answered with status 201 and a well-formed body: shown as an error
C3_Witness ==
    /\ BatchAnswered
    /\ response.exc = ""
    /\ response.status # StatusOk
    /\ IsSuccess(response.status)
    /\ response.body = BatchBody
    /\ BodyErrors = {BatchBody}
    /\ ~ResultStarted

----------------------------------------------------------------------------
(* C4 as stated: after the health check the sidebar says "connected" for a *)
(* success status and "unreachable" for every other status and for every   *)
(* transport failure.                                                      *)
HealthChecked == pc \notin {"health", "health_wait"}

C4_TwoStates ==
    HealthChecked =>
        IF health.exc = "" /\ IsSuccess(health.status)
        THEN sidebar = <<SidebarItem("success", "API Connected", 0)>>
        ELSE sidebar = <<SidebarItem("error", "API Unreachable", 0)>>

(* C4 amended: after the health check the sidebar holds exactly one of     *)
(* three reports: "API Connected" when the status is 200, "API Error:      *)
(* <status>" for every other status, "API Unreachable" for a transport     *)
(* failure.                                                                *)
C4_ThreeStates ==
    HealthChecked =>
        /\ Len(sidebar) = 1
        /\ (health.exc = "" /\ health.status = StatusOk) =>
              sidebar = <<SidebarItem("success", "API Connected", 0)>>
        /\ (health.exc = "" /\ health.status # StatusOk) =>
              sidebar = <<SidebarItem("error", "API Error", health.status)>>
        /\ health.exc # "" =>
              sidebar = <<SidebarItem("error", "API Unreachable", 0)>>

\* the health check was answered with a failure status, reported with its code
C4_Witness ==
    /\ HealthChecked
    /\ health.exc = ""
    /\ ~IsSuccess(health.status)
    /\ sidebar = <<SidebarItem("error", "API Error", health.status)>>

----------------------------------------------------------------------------
(* C5: whatever the health check reported, a run started by a click on     *)
(* Predict, on Predict Batch with a table that has the required columns,   *)
(* or on Check Drift issues that flow's POST once the health check has     *)
(* returned; every request of a run goes to the URL in the URL field, and  *)
(* what the flow shows is determined by the answer to its own request.     *)
ValidUpload ==
    /\ uploaded_file \notin {None, BadCsv}
    /\ Absent(GeoTransform(uploaded_file)) = {}

FlowOutcome ==
    CASE clicked = "Predict" -> PredictOutcome(response)
      [] clicked = "Predict Batch" -> BatchOutcome(response)
      [] clicked = "Check Drift" -> DriftOutcome(response)
      [] OTHER -> <<>>

\* what the tabs showed, without the preview of the upload
FlowDisplay ==
    SelectSeq(display, LAMBDA d : d.text \notin {"df.head()", "ParserError"})

C5_FlowsIgnoreHealth ==
    /\ [](\A i \in 1..Len(sent) : sent[i].url = api_url)
    /\ [](FlowAnswered => FlowDisplay = FlowOutcome)
    /\ (pc = "tab1" /\ clicked = "Predict") ~> PostedTo("/predict")
    /\ (pc = "tab1" /\ clicked = "Predict Batch" /\ ValidUpload)
          ~> PostedTo("/predict/batch")
    /\ (pc = "tab1" /\ clicked = "Check Drift") ~> PostedTo("/drift/check")

\* the sidebar says unreachable, the URL was edited, and Predict succeeded
C5_Witness ==
    /\ sidebar = <<SidebarItem("error", "API Unreachable", 0)>>
    /\ api_url # DefaultApiUrl
    /\ PredictAnswered
    /\ response.status = StatusOk
    /\ ResultRendered
    /\ Posts = <<PredictRequest(api_url, numbers, geography)>>

----------------------------------------------------------------------------
(* C6: requests are sequential and never repeated: at most one request is  *)
(* in flight; a run issues one health GET and at most one POST, the POST   *)
(* of the clicked button; a run not started by a click issues no POST.     *)
PathOf(button) ==
    CASE button = "Predict" -> "/predict"
      [] button = "Predict Batch" -> "/predict/batch"
      [] button = "Check Drift" -> "/drift/check"
      [] OTHER -> ""

C6_OneRequestPerClick ==
    /\ Cardinality(inflight) <= 1
    /\ Len(Posts) <= 1
    /\ Len(sent) - Len(Posts) <= 1
    /\ \A i \in 1..Len(Posts) : clicked # "none" /\ Posts[i].path = PathOf(clicked)
    /\ inflight # {} => pc \in {"health_wait", "tab1_wait", "tab2_wait", "tab3_wait"}

\* a drift check failed with a non-success status and the run ended with
\* that single POST
C6_Witness ==
    /\ DriftAnswered
    /\ response.exc = ""
    /\ ~IsSuccess(response.status)
    /\ Len(Posts) = 1
    /\ inflight = {}

----------------------------------------------------------------------------
(* C7: the payload of a single prediction carries (Geography_Germany,      *)
(* Geography_Spain) = (0,0) for France, (1,0) for Germany and (0,1) for    *)
(* Spain: three different pairs, never (1,1).                              *)
FlagPair(p) == <<p.Geography_Germany, p.Geography_Spain>>

ExpectedPair(g) ==
    CASE g = "France" -> <<0, 0>>
      [] g = "Germany" -> <<1, 0>>
      [] g = "Spain" -> <<0, 1>>

C7_GeographyEncoding ==
    /\ geography \in Countries
    /\ \A i \in 1..Len(sent) :
          sent[i].path = "/predict" =>
              /\ sent[i].json.kind = "object"
              /\ Len(sent[i].json.items) = 1
              /\ FlagPair(sent[i].json.items[1]) = ExpectedPair(geography)
              /\ FlagPair(sent[i].json.items[1]) # <<1, 1>>
    /\ \A g1, g2 \in Countries :
          g1 # g2 => FlagPair(Payload(numbers, g1)) # FlagPair(Payload(numbers, g2))

\* a prediction for Spain left with the pair (0,1)
C7_Witness ==
    /\ geography = "Spain"
    /\ PostedTo("/predict")
    /\ FlagPair(Posts[1].json.items[1]) = <<0, 1>>

----------------------------------------------------------------------------
(* C9: every drift request carries, as the query parameter "threshold" and *)
(* with no body, the slider's value: one of 0.01, 0.02, ..., 0.10, written *)
(* with at most two digits after the point; no other request carries a     *)
(* query parameter.                                                        *)
\* the hundredths a written decimal stands for
Hundredths(v) ==
    v.intpart * 100
    + (IF Len(v.frac) >= 1 THEN v.frac[1] * 10 ELSE 0)
    + (IF Len(v.frac) >= 2 THEN v.frac[2] ELSE 0)

====
